---- MODULE Spec2Model ----
(***************************************************************************)
(* TOTP (src/index.ts): the Base32 codec (stringToBase32, base32Decode),   *)
(* the HOTP counter encoding (generateHMAC), dynamic truncation and token  *)
(* formatting (generateTOTP) and verification (verifyTOTP).                *)
(*                                                                         *)
(* A JavaScript string is modelled as a sequence of one-character strings, *)
(* a Uint8Array as a sequence of numbers in 0..255, a bit string as a      *)
(* sequence of the characters "0" and "1".                                 *)
(***************************************************************************)
EXTENDS Integers, Sequences, FiniteSets, TLC

VARIABLES
    text,       \* stringToBase32: the argument, a sequence of code points
    encoded,    \* stringToBase32: the returned string
    base32,     \* base32Decode: the argument
    decoded,    \* base32Decode: the outcome (thrown or the Uint8Array)
    cpc,        \* position of the codec caller
    calls,      \* the generateTOTP / verifyTOTP calls, one record per call
    held        \* the last generateTOTP call the caller saw fulfilled

vars == <<text, encoded, base32, decoded, cpc, calls, held>>

----------------------------------------------------------------------------
(* Bounds of the model                                                      *)

MaxTextLen == 5
MaxBase32Len == 3
MaxCalls == 2

----------------------------------------------------------------------------
(* JavaScript built-ins used by the code                                    *)

Min(a, b) == IF a < b THEN a ELSE b

RECURSIVE Pow(_, _)
Pow(b, e) == IF e = 0 THEN 1 ELSE b * Pow(b, e - 1)

DigitChars == <<"0", "1", "2", "3", "4", "5", "6", "7", "8", "9">>

DigitValue(c) == (CHOOSE i \in 1..10 : DigitChars[i] = c) - 1

\* Number.prototype.toString(radix) of a non-negative integer, radix <= 10
RECURSIVE toString(_, _)
toString(n, radix) ==
    IF n < radix THEN <<DigitChars[n + 1]>>
    ELSE toString(n \div radix, radix) \o <<DigitChars[(n % radix) + 1]>>

\* parseInt(s, radix) of a non-empty string of digits below the radix
RECURSIVE parseInt(_, _)
parseInt(s, radix) ==
    IF Len(s) = 0 THEN 0
    ELSE parseInt(SubSeq(s, 1, Len(s) - 1), radix) * radix + DigitValue(s[Len(s)])

\* String.prototype.padStart(len, ch)
RECURSIVE padStart(_, _, _)
padStart(s, len, ch) == IF Len(s) >= len THEN s ELSE padStart(<<ch>> \o s, len, ch)

\* String.prototype.padEnd(len, ch)
RECURSIVE padEnd(_, _, _)
padEnd(s, len, ch) == IF Len(s) >= len THEN s ELSE padEnd(s \o <<ch>>, len, ch)

\* String.prototype.slice(from, to), 0-based, end exclusive, 0 <= from <= to
slice(s, from, to) == SubSeq(s, from + 1, Min(to, Len(s)))

LowerChars == <<"a", "b", "c", "d", "e", "f", "g", "h", "i", "j", "k", "l", "m",
                "n", "o", "p", "q", "r", "s", "t", "u", "v", "w", "x", "y", "z">>
UpperChars == <<"A", "B", "C", "D", "E", "F", "G", "H", "I", "J", "K", "L", "M",
                "N", "O", "P", "Q", "R", "S", "T", "U", "V", "W", "X", "Y", "Z">>

\* String.prototype.toUpperCase() of one character; "dotless_i" stands for
\* U+0131, whose upper case is the ASCII letter I
toUpperCase(c) ==
    IF \E i \in 1..26 : LowerChars[i] = c
    THEN UpperChars[CHOOSE i \in 1..26 : LowerChars[i] = c]
    ELSE IF c = "dotless_i" THEN "I" ELSE c

\* TextEncoder.encode of one code point below 0x800 (UTF-8)
Utf8(cp) == IF cp < 128 THEN <<cp>> ELSE <<192 + (cp \div 64), 128 + (cp % 64)>>

RECURSIVE TextEncode(_)
TextEncode(t) == IF Len(t) = 0 THEN <<>> ELSE Utf8(Head(t)) \o TextEncode(Tail(t))

----------------------------------------------------------------------------
(* stringToBase32                                                           *)

alphabet == <<"A", "B", "C", "D", "E", "F", "G", "H", "I", "J", "K", "L", "M",
              "N", "O", "P", "Q", "R", "S", "T", "U", "V", "W", "X", "Y", "Z",
              "2", "3", "4", "5", "6", "7">>

\* for (i < byteArray.length) bits += byteArray[i].toString(2).padStart(8, '0')
RECURSIVE BytesToBits(_)
BytesToBits(byteArray) ==
    IF Len(byteArray) = 0 THEN <<>>
    ELSE padStart(toString(Head(byteArray), 2), 8, "0") \o BytesToBits(Tail(byteArray))

\* a mutant of EncodeGroup: the short final group padded on the left
EncodeGroupPadStart(bits, i) == alphabet[parseInt(padStart(slice(bits, i, i + 5), 5, "0"), 2) + 1]

\* alphabet[parseInt(bits.slice(i, i + 5).padEnd(5, '0'), 2)]
EncodeGroup(bits, i) == alphabet[parseInt(padEnd(slice(bits, i, i + 5), 5, "0"), 2) + 1]

\* for (i = 0; i < bits.length; i += 5) output += ...
RECURSIVE EncodeGroups(_, _)
EncodeGroups(bits, i) ==
    IF i >= Len(bits) THEN <<>> ELSE <<EncodeGroup(bits, i)>> \o EncodeGroups(bits, i + 5)

\* while (output.length % 8 !== 0) output += '='
RECURSIVE PadOutput(_)
PadOutput(output) == IF Len(output) % 8 = 0 THEN output ELSE PadOutput(output \o <<"=">>)

stringToBase32(t) == PadOutput(EncodeGroups(BytesToBits(TextEncode(t)), 0))

----------------------------------------------------------------------------
(* base32Decode                                                             *)

base32Lookup ==
    "A" :> 0 @@ "B" :> 1 @@ "C" :> 2 @@ "D" :> 3 @@ "E" :> 4 @@ "F" :> 5 @@
    "G" :> 6 @@ "H" :> 7 @@ "I" :> 8 @@ "J" :> 9 @@ "K" :> 10 @@ "L" :> 11 @@
    "M" :> 12 @@ "N" :> 13 @@ "O" :> 14 @@ "P" :> 15 @@ "Q" :> 16 @@ "R" :> 17 @@
    "S" :> 18 @@ "T" :> 19 @@ "U" :> 20 @@ "V" :> 21 @@ "W" :> 22 @@ "X" :> 23 @@
    "Y" :> 24 @@ "Z" :> 25 @@ "2" :> 26 @@ "3" :> 27 @@ "4" :> 28 @@ "5" :> 29 @@
    "6" :> 30 @@ "7" :> 31

\* the value of a property the object does not have
undefined == -1

\* base32Lookup[ch]: the value of the property, undefined when there is none
Lookup(ch) == IF ch \in DOMAIN base32Lookup THEN base32Lookup[ch] ELSE undefined

\* !val for val: number | undefined
Falsy(val) == val = undefined \/ val = 0

InvalidBase32 == "Invalid base32 string provided"

\* a mutant of StripTrailingEquals: every '=' removed, replace(/=/g, '')
RECURSIVE StripAllEquals(_)
StripAllEquals(s) ==
    IF Len(s) = 0 THEN s
    ELSE IF Head(s) = "=" THEN StripAllEquals(Tail(s))
    ELSE <<Head(s)>> \o StripAllEquals(Tail(s))

\* base32.replace(/=+$/, '')
RECURSIVE StripTrailingEquals(_)
StripTrailingEquals(s) ==
    IF Len(s) > 0 /\ s[Len(s)] = "=" THEN StripTrailingEquals(SubSeq(s, 1, Len(s) - 1))
    ELSE s

\* the first loop of base32Decode, from index i with the bits so far
RECURSIVE DecodeChars(_, _, _)
DecodeChars(s, i, bits) ==
    IF i > Len(s) THEN [thrown |-> FALSE, bits |-> bits]
    ELSE LET val == Lookup(toUpperCase(s[i]))
         IN  IF Falsy(val) THEN [thrown |-> TRUE, bits |-> bits]
             ELSE DecodeChars(s, i + 1, bits \o padStart(toString(val, 2), 5, "0"))

\* for (i = 0; i < bits.length; i += 8) output.push(parseInt(bits.slice(i, i + 8), 2))
RECURSIVE DecodeGroups(_, _)
DecodeGroups(bits, i) ==
    IF i >= Len(bits) THEN <<>>
    ELSE <<parseInt(slice(bits, i, i + 8), 2)>> \o DecodeGroups(bits, i + 8)

base32Decode(s) ==
    LET loop == DecodeChars(StripTrailingEquals(s), 1, <<>>)
    IN  IF loop.thrown THEN [thrown |-> TRUE, error |-> InvalidBase32, output |-> <<>>]
        ELSE [thrown |-> FALSE, error |-> "", output |-> DecodeGroups(loop.bits, 0)]

----------------------------------------------------------------------------
(* generateHMAC                                                             *)

\* the loop that fills counterArray, least significant byte first, from i = 0:
\* a mutant of CounterArray (little-endian)
RECURSIVE FillCounterArrayUp(_, _, _)
FillCounterArrayUp(counterArray, i, counter) ==
    IF i > 7 THEN counterArray
    ELSE FillCounterArrayUp([counterArray EXCEPT ![i + 1] = counter % 256], i + 1, counter \div 256)

CounterArrayLittleEndian(counter) == FillCounterArrayUp(<<0, 0, 0, 0, 0, 0, 0, 0>>, 0, counter)

\* for (i = 7; i >= 0; i--) { counterArray[i] = counter % 256; counter = floor(counter / 256) }
RECURSIVE FillCounterArray(_, _, _)
FillCounterArray(counterArray, i, counter) ==
    IF i < 0 THEN counterArray
    ELSE FillCounterArray([counterArray EXCEPT ![i + 1] = counter % 256], i - 1, counter \div 256)

\* new Uint8Array(8) filled by the loop
CounterArray(counter) == FillCounterArray(<<0, 0, 0, 0, 0, 0, 0, 0>>, 7, counter)

DataError == "DataError"

\* crypto.subtle.importKey('raw', key, HMAC/SHA-1): Web Crypto rejects a key
\* of length zero with a DataError, any other key is imported as it is
ImportKey(key) ==
    IF Len(key) = 0 THEN [thrown |-> TRUE, error |-> DataError, cryptoKey |-> <<>>]
    ELSE [thrown |-> FALSE, error |-> "", cryptoKey |-> key]

RECURSIVE Weighted(_, _)
Weighted(s, w) ==
    IF Len(s) = 0 THEN 0 ELSE Weighted(SubSeq(s, 1, Len(s) - 1), w) + s[Len(s)] * (Len(s) + w)

\* crypto.subtle.sign('HMAC', cryptoKey, counterArray): HMAC-SHA1 is external
\* to the program; it is a fixed function of the key and the message to 20
\* bytes, and this function stands for it
Sign(cryptoKey, message) ==
    [i \in 1..20 |-> (7 * Weighted(cryptoKey, i) + 13 * Weighted(message, 3 * i) + 31 * i) % 256]

----------------------------------------------------------------------------
(* generateTOTP and verifyTOTP                                              *)

TIME_STEP == 30

\* Math.floor(timestamp / (1000 * TIME_STEP)), timestamp a non-negative integer
Counter(timestamp) == timestamp \div (1000 * TIME_STEP)

\* a mutant of Offset: the high four bits of the last byte
OffsetHighNibble(hmac) == hmac[Len(hmac)] \div 16

\* hmac[hmac.length - 1] % 16
Offset(hmac) == hmac[Len(hmac)] % 16

\* const binary = (hmac[offset + 0] % 128) * 256 ** 3 + ... (hmac is 0-based)
Binary(hmac) ==
    LET offset == Offset(hmac)
    IN  (hmac[offset + 1] % 128) * Pow(256, 3) + (hmac[offset + 2] % 256) * Pow(256, 2)
        + (hmac[offset + 3] % 256) * Pow(256, 1) + (hmac[offset + 4] % 256) * Pow(256, 0)

\* binary % 1_00_00_00
Otp(binary) == binary % 1000000

\* a mutant of Token: no padStart
TokenUnpadded(otp) == toString(otp, 10)

\* otp.toString().padStart(6, '0')
Token(otp) == padStart(toString(otp, 10), 6, "0")

\* a mutant of VerifyResult: the comparison negated
VerifyResultNegated(generatedToken, userToken) == generatedToken # userToken

\* generatedToken === userToken
VerifyResult(generatedToken, userToken) == generatedToken = userToken

\* generateTOTP(secret, timestamp) run from call to settlement with no other
\* call in flight: the rejection or the token
generateTOTP(secret, timestamp) ==
    LET counter == Counter(timestamp)
        key == base32Decode(secret)
        imported == ImportKey(key.output)
    IN  IF key.thrown THEN [thrown |-> TRUE, error |-> key.error, token |-> <<>>]
        ELSE IF imported.thrown THEN [thrown |-> TRUE, error |-> imported.error, token |-> <<>>]
        ELSE [thrown |-> FALSE, error |-> "",
              token |-> Token(Otp(Binary(Sign(imported.cryptoKey, CounterArray(counter)))))]

\* verifyTOTP(secret, userToken, timestamp) run alone
verifyTOTP(secret, userToken, timestamp) ==
    LET generated == generateTOTP(secret, timestamp)
    IN  IF generated.thrown THEN [thrown |-> TRUE, error |-> generated.error, valid |-> FALSE]
        ELSE [thrown |-> FALSE, error |-> "", valid |-> VerifyResult(generated.token, userToken)]

----------------------------------------------------------------------------
(* The inputs the callers draw from                                          *)

\* code points of the texts: NUL, space, 'M', U+00E9 (two UTF-8 bytes)
TextChars == {0, 32, 77, 233}

Base32Chars == {"A", "B", "b", "7", "=", "1", "!", "dotless_i"}

SeqsUpTo(S, n) == UNION {[1..k -> S] : k \in 0..n}

\* the secret of the README, the same in lower case, a padded secret ("foo"),
\* the encoding of five spaces, two invalid secrets and the empty secret
SecretReadme == <<"J", "B", "S", "W", "Y", "3", "D", "P", "E", "H", "P", "K", "3", "P", "X", "P">>
SecretLower == <<"j", "b", "s", "w", "y", "3", "d", "p", "e", "h", "p", "k", "3", "p", "x", "p">>
SecretPadded == <<"M", "Z", "X", "W", "6", "=", "=", "=">>
SecretSpaces == <<"E", "A", "Q", "C", "A", "I", "B", "A">>
SecretInvalid == <<"1", "!", "!", "!">>
SecretInnerPad == <<"J", "B", "=", "S", "W">>
SecretEmpty == <<>>

Secrets == {SecretReadme, SecretLower, SecretPadded, SecretSpaces, SecretInvalid,
            SecretInnerPad, SecretEmpty}

\* milliseconds: both ends of step 0, the start and the inside of step 1, step 256
Timestamps == {0, 29999, 30000, 59000, 7680000}

ZeroToken == <<"0", "0", "0", "0", "0", "0">>
ReadmeToken == <<"1", "2", "3", "4", "5", "6">>

ConcurrentSecrets == {SecretReadme, SecretPadded, SecretInvalid}
ConcurrentTimestamps == {0, 7680000}

----------------------------------------------------------------------------
(* The state                                                                *)

NoOutcome == [thrown |-> FALSE, error |-> "", output |-> <<>>]

\* the arguments and the local variables of one call, and where it stands
IdleCall ==
    [pc |-> "idle", op |-> "none", secret |-> <<>>, timestamp |-> 0,
     userToken |-> <<>>, counter |-> 0, key |-> <<>>, counterArray |-> <<>>,
     cryptoKey |-> <<>>, hmac |-> <<>>, binary |-> 0, token |-> <<>>,
     valid |-> FALSE, error |-> ""]

CallIds == 1..MaxCalls

Init ==
    /\ cpc \in {"text", "base32", "totp"}
    /\ text \in IF cpc = "text" THEN SeqsUpTo(TextChars, MaxTextLen) ELSE {<<>>}
    /\ base32 \in IF cpc = "base32" THEN SeqsUpTo(Base32Chars, MaxBase32Len) ELSE {<<>>}
    /\ encoded = <<>>
    /\ decoded = NoOutcome
    /\ calls = [c \in CallIds |-> IdleCall]
    /\ held = IdleCall

InitTotp ==
    /\ cpc = "totp"
    /\ text = <<>>
    /\ base32 = <<>>
    /\ encoded = <<>>
    /\ decoded = NoOutcome
    /\ calls = [c \in CallIds |-> IdleCall]
    /\ held = IdleCall

----------------------------------------------------------------------------
(* The codec called on its own                                              *)

\* output = stringToBase32(text)
CallStringToBase32 ==
    /\ cpc = "text"
    /\ encoded' = stringToBase32(text)
    /\ cpc' = "encoded"
    /\ UNCHANGED <<text, base32, decoded, calls, held>>

\* base32Decode(stringToBase32(text))
CallBase32DecodeOfEncoded ==
    /\ cpc = "encoded"
    /\ base32' = encoded
    /\ decoded' = base32Decode(encoded)
    /\ cpc' = "roundtrip"
    /\ UNCHANGED <<text, encoded, calls, held>>

\* base32Decode(base32)
CallBase32Decode ==
    /\ cpc = "base32"
    /\ decoded' = base32Decode(base32)
    /\ cpc' = "decoded"
    /\ UNCHANGED <<text, encoded, base32, calls, held>>

----------------------------------------------------------------------------
(* generateTOTP / verifyTOTP, one step per stretch between two awaits       *)

\* how a failure inside generateTOTP leaves call c: generateTOTP is rejected;
\* verifyTOTP is still awaiting generateTOTP, whose promise is rejected
Failed(call, error) ==
    [call EXCEPT !.error = error,
                 !.pc = IF call.op = "generate" THEN "rejected" ELSE "awaitGenerateTOTP"]

\* the call, up to `await crypto.subtle.importKey(...)`: counter, key (which
\* may throw) and counterArray
Invoke(c, op, secret, timestamp, userToken) ==
    /\ cpc = "totp"
    /\ calls[c].pc = "idle"
    /\ LET call == [IdleCall EXCEPT !.op = op, !.secret = secret, !.timestamp = timestamp,
                                    !.userToken = userToken, !.counter = Counter(timestamp)]
           key == base32Decode(secret)
       IN  calls' = [calls EXCEPT ![c] =
               IF key.thrown THEN Failed(call, key.error)
               ELSE [call EXCEPT !.key = key.output,
                                 !.counterArray = CounterArray(call.counter),
                                 !.pc = "awaitImportKey"]]
    /\ UNCHANGED <<text, encoded, base32, decoded, cpc, held>>

\* importKey settles; on success the call goes on to `await crypto.subtle.sign(...)`
ImportKeyResolves(c) ==
    /\ calls[c].pc = "awaitImportKey"
    /\ LET imported == ImportKey(calls[c].key)
       IN  calls' = [calls EXCEPT ![c] =
               IF imported.thrown THEN Failed(calls[c], imported.error)
               ELSE [calls[c] EXCEPT !.cryptoKey = imported.cryptoKey, !.pc = "awaitSign"]]
    /\ UNCHANGED <<text, encoded, base32, decoded, cpc, held>>

\* a mutant of SignMessage: counterArray hoisted out of generateHMAC, so the
\* buffer signed is the one the latest call in flight has filled
SignMessageShared(c) ==
    calls[CHOOSE d \in CallIds :
              /\ calls[d].counterArray # <<>>
              /\ \A e \in CallIds : calls[e].counterArray # <<>> => e <= d].counterArray

\* the counterArray handed to sign: the local of this call
SignMessage(c) == calls[c].counterArray

\* generateTOTP from the digest to the return: truncation and formatting
AfterSign(call, hmac) ==
    LET binary == Binary(hmac)
    IN  [call EXCEPT !.hmac = hmac, !.binary = binary, !.token = Token(Otp(binary)),
                     !.pc = IF call.op = "generate" THEN "fulfilled" ELSE "awaitGenerateTOTP"]

\* sign settles with the digest of the call's key and counterArray
SignResolves(c) ==
    /\ calls[c].pc = "awaitSign"
    /\ calls' = [calls EXCEPT ![c] = AfterSign(calls[c], Sign(calls[c].cryptoKey, SignMessage(c)))]
    /\ UNCHANGED <<text, encoded, base32, decoded, cpc, held>>

\* sign settles with a digest of which nothing but its length is assumed
SignResolvesWith(c, hmac) ==
    /\ calls[c].pc = "awaitSign"
    /\ calls' = [calls EXCEPT ![c] = AfterSign(calls[c], hmac)]
    /\ UNCHANGED <<text, encoded, base32, decoded, cpc, held>>

\* verifyTOTP resumes after `await generateTOTP(secret, timestamp)`
VerifyResumes(c) ==
    /\ calls[c].pc = "awaitGenerateTOTP"
    /\ LET call == calls[c]
       IN  calls' = [calls EXCEPT ![c] =
               IF call.error # "" THEN [call EXCEPT !.pc = "rejected"]
               ELSE [call EXCEPT !.valid = VerifyResult(call.token, call.userToken),
                                 !.pc = "fulfilled"]]
    /\ UNCHANGED <<text, encoded, base32, decoded, cpc, held>>

Settled(call) == call.pc \in {"fulfilled", "rejected"}

\* the caller takes the outcome of a settled call; a token it got from
\* generateTOTP is the one it holds from then on
Return(c) ==
    /\ Settled(calls[c])
    /\ held' = IF calls[c].op = "generate" /\ calls[c].pc = "fulfilled" THEN calls[c] ELSE held
    /\ calls' = [calls EXCEPT ![c] = IdleCall]
    /\ UNCHANGED <<text, encoded, base32, decoded, cpc>>

----------------------------------------------------------------------------
(* Spec: the codec called on its own, and one caller that makes one         *)
(* generateTOTP / verifyTOTP call after the other, verifying the token it   *)
(* holds, 000000 or 123456.                                                 *)

CallGenerateTOTP ==
    \E secret \in Secrets, timestamp \in Timestamps :
        Invoke(1, "generate", secret, timestamp, <<>>)

CallVerifyTOTP ==
    \E secret \in Secrets, timestamp \in Timestamps, userToken \in {held.token, ZeroToken, ReadmeToken} :
        Invoke(1, "verify", secret, timestamp, userToken)

Next ==
    \/ CallStringToBase32
    \/ CallBase32DecodeOfEncoded
    \/ CallBase32Decode
    \/ CallGenerateTOTP
    \/ CallVerifyTOTP
    \/ ImportKeyResolves(1)
    \/ SignResolves(1)
    \/ VerifyResumes(1)
    \/ Return(1)

Spec == Init /\ [][Next]_vars

----------------------------------------------------------------------------
(* SpecConcurrent: up to MaxCalls calls in flight at once, resumed in any   *)
(* order at their awaits.                                                   *)

StartCall(c) ==
    \E secret \in ConcurrentSecrets, timestamp \in ConcurrentTimestamps :
        \/ Invoke(c, "generate", secret, timestamp, <<>>)
        \/ Invoke(c, "verify", secret, timestamp, ZeroToken)

NextConcurrent ==
    \E c \in CallIds :
        \/ StartCall(c)
        \/ ImportKeyResolves(c)
        \/ SignResolves(c)
        \/ VerifyResumes(c)

SpecConcurrent == InitTotp /\ [][NextConcurrent]_vars


----------------------------------------------------------------------------
(* SpecTruncation: generateTOTP with an HMAC provider that may return any   *)
(* digest of 20 bytes. The digests tried put the bytes 0, 1, 127, 128, 255  *)
(* first in the window of every offset, and every byte value first in the   *)
(* windows of offsets 0 and 15.                                             *)

LastBytes == (0..15) \cup {165, 255}
WindowTails == {<<0, 0, 0>>, <<0, 0, 42>>, <<255, 255, 255>>}

\* 20 bytes: `last` at index 19, `first` and `tail` at the four indexes the
\* last byte selects, 170 elsewhere
Digest(last, first, tail) ==
    [i \in 1..20 |->
        IF i = 20 THEN last
        ELSE IF i - 1 = last % 16 THEN first
        ELSE IF i - 1 \in ((last % 16) + 1)..((last % 16) + 3) THEN tail[i - 1 - (last % 16)]
        ELSE 170]

WindowHeads == {0, 1, 127, 128, 255}

Digests ==
    {Digest(last, first, tail) : last \in LastBytes, first \in WindowHeads, tail \in WindowTails}
    \cup {Digest(last, first, <<1, 2, 3>>) : last \in {0, 255}, first \in 0..255}

NextTruncation ==
    \/ \E secret \in ConcurrentSecrets, timestamp \in ConcurrentTimestamps :
           Invoke(1, "generate", secret, timestamp, <<>>)
    \/ ImportKeyResolves(1)
    \/ \E hmac \in Digests : SignResolvesWith(1, hmac)

SpecTruncation == InitTotp /\ [][NextTruncation]_vars

----------------------------------------------------------------------------
(* What the claims about the codec say, stated without the code's helpers:  *)
(* bit k (0-based, most significant first) of a byte sequence, of a         *)
(* sequence of 5-bit values, and the groups cut from such a stream.         *)

BitOfBytes(bytes, k) ==
    IF k < 8 * Len(bytes) THEN (bytes[(k \div 8) + 1] \div Pow(2, 7 - (k % 8))) % 2 ELSE 0

FiveBitGroup(bytes, i) ==
    16 * BitOfBytes(bytes, 5 * i) + 8 * BitOfBytes(bytes, 5 * i + 1)
    + 4 * BitOfBytes(bytes, 5 * i + 2) + 2 * BitOfBytes(bytes, 5 * i + 3)
    + BitOfBytes(bytes, 5 * i + 4)

CeilDiv(a, b) == (a + b - 1) \div b

\* the characters of s that toUpperCase maps into the alphabet
InAlphabet(ch) == \E i \in 1..32 : alphabet[i] = toUpperCase(ch)

\* s without its trailing '=' characters, as the longest prefix not ending in '='
Unpadded(s) ==
    LET ends == {k \in 0..Len(s) : (k = 0 \/ s[k] # "=") /\ \A j \in (k + 1)..Len(s) : s[j] = "="}
    IN  SubSeq(s, 1, CHOOSE k \in ends : TRUE)

AlphabetOnly(s) == \A i \in 1..Len(Unpadded(s)) : InAlphabet(s[i])

SymbolValue(ch) == (CHOOSE i \in 1..32 : alphabet[i] = toUpperCase(ch)) - 1

BitOfSymbols(s, k) == (SymbolValue(s[(k \div 5) + 1]) \div Pow(2, 4 - (k % 5))) % 2

EightBitGroup(s, i) ==
    LET b(j) == BitOfSymbols(s, 8 * i + j)
    IN  128 * b(0) + 64 * b(1) + 32 * b(2) + 16 * b(3) + 8 * b(4) + 4 * b(5) + 2 * b(6) + b(7)

\* the complete 8-bit groups of the 5-bit values of an alphabet-only text
CompleteBytes(s) == [i \in 1..((5 * Len(s)) \div 8) |-> EightBitGroup(s, i - 1)]

C2_RoundTrip ==
    (cpc = "roundtrip" /\ Len(TextEncode(text)) % 5 = 0) =>
        (~decoded.thrown /\ decoded.output = TextEncode(text))

\* C3: a text of alphabet characters that contains 'A' (value 0) decodes
\* without an error.
C3_ZeroSymbolAccepted ==
    (/\ cpc = "decoded"
     /\ AlphabetOnly(base32)
     /\ \E i \in 1..Len(Unpadded(base32)) : toUpperCase(base32[i]) = "A") => ~decoded.thrown

\* C4: whenever base32Decode returns, it returns the floor(5n/8) complete
\* 8-bit groups of the n symbols and no byte for a shorter final group.
C4_PartialGroupDiscarded ==
    (cpc \in {"decoded", "roundtrip"} /\ ~decoded.thrown) =>
        decoded.output = CompleteBytes(Unpadded(base32))

----------------------------------------------------------------------------
(* The claims about generateTOTP and verifyTOTP                             *)

HasInvalidChar(s) == \E i \in 1..Len(Unpadded(s)) : ~InAlphabet(s[i])

\* floor(n / 256^k) mod 256: the byte of weight 256^k of n
RECURSIVE ByteOfWeight(_, _)
ByteOfWeight(n, k) == IF k = 0 THEN n % 256 ELSE ByteOfWeight(n \div 256, k - 1)

\* the number a string of decimal digits spells
RECURSIVE DecimalValue(_)
DecimalValue(s) ==
    IF Len(s) = 0 THEN 0
    ELSE 10 * DecimalValue(SubSeq(s, 1, Len(s) - 1))
         + (CHOOSE d \in 0..9 : DigitChars[d + 1] = s[Len(s)])

\* a & b, bit by bit
RECURSIVE BitAnd(_, _)
BitAnd(a, b) ==
    IF a = 0 \/ b = 0 THEN 0 ELSE (a % 2) * (b % 2) + 2 * BitAnd(a \div 2, b \div 2)

\* 2^31 - 1
MaxInt31 == 2 * (Pow(2, 30) - 1) + 1

StepOf(timestamp) == (timestamp \div 1000) \div 30

\* the call has handed its counterArray to sign
Signing(call) == call.pc = "awaitSign" \/ call.hmac # <<>>

C5_InvalidSecretRejected ==
    /\ (cpc = "decoded" /\ HasInvalidChar(base32)) =>
           (decoded.thrown /\ decoded.error = InvalidBase32)
    /\ \A c \in CallIds :
           (calls[c].pc # "idle" /\ HasInvalidChar(calls[c].secret)) =>
               /\ calls[c].error = InvalidBase32
               /\ calls[c].pc = IF calls[c].op = "generate" THEN "rejected"
                                ELSE IF calls[c].pc = "rejected" THEN "rejected"
                                ELSE "awaitGenerateTOTP"
               /\ calls[c].token = <<>>

\* C5 witness: verifyTOTP rejected for a secret with '=' inside it
C5_Witness ==
    /\ calls[1].op = "verify" /\ calls[1].pc = "rejected"
    /\ calls[1].secret = SecretInnerPad /\ calls[1].error = InvalidBase32

\* C7: the message handed to HMAC is the 8-byte big-endian encoding of
\* floor(t / 1000 / 30); a call in the step of the call whose token is held
\* signs the same message and, for the same secret, returns the same token; a
\* call in another step signs another message.
C7_CounterMessage ==
    LET g == calls[1]
    IN  Signing(g) =>
            /\ Len(g.counterArray) = 8
            /\ \A i \in 0..7 : g.counterArray[i + 1] = ByteOfWeight(StepOf(g.timestamp), 7 - i)
            /\ SignMessage(1) = g.counterArray
            /\ held.pc = "fulfilled" =>
                   /\ (StepOf(g.timestamp) = StepOf(held.timestamp)) =
                          (g.counterArray = held.counterArray)
                   /\ (/\ StepOf(g.timestamp) = StepOf(held.timestamp)
                       /\ g.secret = held.secret /\ g.hmac # <<>>) => g.token = held.token

\* C7 witness: the token of step 256 is held (message 00 .. 01 00) and a
\* call at the last millisecond of step 0 has returned
C7_Witness ==
    /\ held.pc = "fulfilled" /\ held.timestamp = 7680000
    /\ held.counterArray = <<0, 0, 0, 0, 0, 0, 1, 0>>
    /\ calls[1].pc = "fulfilled" /\ calls[1].op = "generate" /\ calls[1].timestamp = 29999
    /\ calls[1].counterArray = <<0, 0, 0, 0, 0, 0, 0, 0>>

\* what call c does when no other call is in flight
OutcomeAlone(call) ==
    IF call.op = "generate"
    THEN LET r == generateTOTP(call.secret, call.timestamp)
         IN  [rejected |-> r.thrown, error |-> r.error, token |-> r.token, valid |-> FALSE]
    ELSE LET r == verifyTOTP(call.secret, call.userToken, call.timestamp)
         IN  [rejected |-> r.thrown, error |-> r.error,
              token |-> generateTOTP(call.secret, call.timestamp).token, valid |-> r.valid]

\* C9: however the calls in flight interleave at their awaits, each settles
\* with the outcome it has when it runs alone.
C9_CallsIndependent ==
    \A c \in CallIds :
        Settled(calls[c]) =>
            LET alone == OutcomeAlone(calls[c])
            IN  /\ (calls[c].pc = "rejected") = alone.rejected
                /\ calls[c].error = alone.error
                /\ calls[c].token = alone.token
                /\ calls[c].valid = alone.valid

\* C9 witness: a call has returned its token while a call with another
\* secret and another timestamp is in flight, awaiting sign
C9_Witness ==
    /\ calls[1].pc = "fulfilled" /\ calls[1].op = "generate"
    /\ calls[1].secret = SecretReadme /\ calls[1].timestamp = 0
    /\ calls[2].pc = "awaitSign" /\ calls[2].op = "verify"
    /\ calls[2].secret = SecretPadded /\ calls[2].timestamp = 7680000

\* C10: offset = digest[19] mod 16 is in 0..15, offset + 3 <= 19, and binary
\* is (digest[offset] & 0x7F) * 2^24 + digest[offset+1] * 2^16 +
\* digest[offset+2] * 2^8 + digest[offset+3], at least 0 and below 2^31.
C10_DynamicTruncation ==
    \A c \in CallIds :
        calls[c].hmac # <<>> =>
            LET digest == calls[c].hmac
                offset == digest[20] % 16
            IN  /\ Len(digest) = 20
                /\ offset \in 0..15 /\ offset + 3 <= 19
                /\ offset = BitAnd(digest[20], 15)
                /\ calls[c].binary =
                       BitAnd(digest[offset + 1], 127) * Pow(2, 24) + digest[offset + 2] * Pow(2, 16)
                       + digest[offset + 3] * Pow(2, 8) + digest[offset + 4]
                /\ calls[c].binary >= 0 /\ calls[c].binary <= MaxInt31

\* C10 witness: offset 15, every byte of the window 255, binary 2^31 - 1
C10_Witness ==
    /\ calls[1].pc = "fulfilled"
    /\ calls[1].hmac = Digest(255, 255, <<255, 255, 255>>)
    /\ calls[1].binary = MaxInt31

====
